---- MODULE Spec2Model ----
(***************************************************************************)
(* Static Huffman coding (src/app.py): build_tree, generate_codes,         *)
(* encode_message, decode_message and the part of predict that feeds them. *)
(*                                                                         *)
(* Probabilities are Python floats in the source.  They are modelled as    *)
(* integer weights (0 stands for a non-positive probability), so sums are  *)
(* exact; floating-point rounding of left.prob + right.prob is not         *)
(* modelled.                                                               *)
(***************************************************************************)
EXTENDS Integers, Sequences, FiniteSets, TLC

\* ------------------------------------------------------------------ bounds
MaxLetters == 3      \* longest letters / probabilities list
MaxProb    == 2      \* largest probability weight
MaxMsg     == 2      \* longest message given to encode_message
MaxBits    == 3      \* longest bit-string given directly to decode_message

\* The alphabet tokens letters.split(',') can yield ("" from "a,,b" or "").
Symbols == {"a", "b", "c", ""}
\* A message character that is no key of any code table.
Unknown == "z"
\* A message is a Python str: its characters are never the empty token.
MsgChars == (Symbols \ {""}) \cup {Unknown}
ProbValues == 0..MaxProb
Bits == {"0", "1"}

\* Python's None as a symbol, and as a child / root reference.
None == "None"
NoneNode == 0

SeqsUpTo(S, n) == UNION {[1..k -> S] : k \in 0..n}

VARIABLES
  pc,           \* position in the program
  letters,      \* predict: letters
  probs,        \* predict: probs
  prob_dict,    \* insertion-ordered dict: sequence of [key, value]
  todo,         \* build_tree: index of the next prob_dict item to push
  nodes,        \* every HuffmanNode allocated so far; a node is its index
  heap,         \* build_tree: heap (node indices)
  merge_steps,  \* build_tree: merge_steps
  root,         \* predict: root
  codes,        \* predict: codes ([isNone, items]; items an ordered dict)
  message,      \* predict: message
  encoded,      \* predict: encoded / the bit-string given to decode_message
  decoded,      \* predict: decoded
  error         \* the exception that ended the run, if any

vars == <<pc, letters, probs, prob_dict, todo, nodes, heap, merge_steps,
          root, codes, message, encoded, decoded, error>>

\* No exception of the source carries a position: pos stays NoPos.
NoPos == 0
NoError == [kind |-> "", arg |-> None, pos |-> NoPos]

\* ------------------------------------------------------------ HuffmanNode
HuffmanNode(symbol, prob) ==
  [symbol |-> symbol, prob |-> prob, left |-> NoneNode, right |-> NoneNode]

\* HuffmanNode.__lt__ on two nodes of the store ns
Lt(ns, x, y) == ns[x].prob < ns[y].prob

\* ------------------------------------------------------------------- dict
Keys(d) == {d[i].key : i \in 1..Len(d)}
IndexOf(d, k) == CHOOSE i \in 1..Len(d) : d[i].key = k
Get(d, k) == d[IndexOf(d, k)].value
\* d[k] = v: a new key goes last, an old key keeps its place
DictSet(d, k, v) ==
  IF k \in Keys(d)
    THEN [d EXCEPT ![IndexOf(d, k)].value = v]
    ELSE Append(d, [key |-> k, value |-> v])

Min(x, y) == IF x <= y THEN x ELSE y

RECURSIVE DictZipFrom(_, _, _, _)
DictZipFrom(ls, ps, i, d) ==
  IF i > Min(Len(ls), Len(ps)) THEN d
  ELSE DictZipFrom(ls, ps, i + 1, DictSet(d, ls[i], ps[i]))
\* dict(zip(letters, probs))
DictZip(ls, ps) == DictZipFrom(ls, ps, 1, <<>>)

\* ------------------------------------------------------------- build_tree
Swap(h, i, j) == [h EXCEPT ![i] = h[j], ![j] = h[i]]

\* heapq._siftdown(heap, 0, pos), positions counted from 1
RECURSIVE SiftDown(_, _, _)
SiftDown(ns, h, pos) ==
  IF pos > 1 /\ Lt(ns, h[pos], h[pos \div 2])
    THEN SiftDown(ns, Swap(h, pos, pos \div 2), pos \div 2)
    ELSE h

\* heapq.heappush(heap, item)
heappush(ns, h, item) == SiftDown(ns, Append(h, item), Len(h) + 1)

\* insert x behind every element whose key is <= x's: the sort is stable
RECURSIVE InsertStable(_, _, _)
InsertStable(ns, s, x) ==
  IF s = <<>> THEN <<x>>
  ELSE IF ns[Head(s)].prob <= ns[x].prob
    THEN <<Head(s)>> \o InsertStable(ns, Tail(s), x)
    ELSE <<x>> \o s

sorted_unsorted(ns, h) == h

\* sorted(heap, key=lambda x: x.prob)
RECURSIVE sorted(_, _)
sorted(ns, h) ==
  IF h = <<>> THEN <<>>
  ELSE InsertStable(ns, sorted(ns, SubSeq(h, 1, Len(h) - 1)), h[Len(h)])

Merged_shared(ns, left, right) ==
  [symbol |-> None, prob |-> ns[left].prob + ns[right].prob,
   left |-> left, right |-> left]

\* merged = HuffmanNode(None, left.prob + right.prob) with its two children
Merged(ns, left, right) ==
  [symbol |-> None, prob |-> ns[left].prob + ns[right].prob,
   left |-> left, right |-> right]

MergeStep(ns, left, right, merged) ==
  <<ns[left].symbol, ns[left].prob, ns[right].symbol, ns[right].prob,
    merged.prob>>

\* ---------------------------------------------------------- generate_codes
\* The recursive walk: the dict `codes` as it is after the call on `node`.
RECURSIVE CodesWalk(_, _, _, _)
CodesWalk(ns, node, current_code, cds) ==
  IF ns[node].symbol # None
    THEN DictSet(cds, ns[node].symbol, current_code)
    ELSE CodesWalk(ns, ns[node].right, current_code \o <<"1">>,
                   CodesWalk(ns, ns[node].left, current_code \o <<"0">>, cds))

NoTable == [isNone |-> TRUE, items |-> <<>>]

\* generate_codes(root): the bare `return` of the leaf branch yields None
generate_codes(ns, node) ==
  IF ns[node].symbol # None
    THEN NoTable
    ELSE [isNone |-> FALSE, items |-> CodesWalk(ns, node, <<>>, <<>>)]

\* --------------------------------------------------------- encode_message
Raise(kind, arg) ==
  [err |-> [kind |-> kind, arg |-> arg, pos |-> NoPos], out |-> <<>>]
Return(out) == [err |-> NoError, out |-> out]

RECURSIVE EncodeSkipFrom(_, _, _, _)
EncodeSkipFrom(msg, cds, i, acc) ==
  IF i > Len(msg) THEN Return(acc)
  ELSE IF cds.isNone THEN Raise("TypeError", None)
  ELSE IF msg[i] \notin Keys(cds.items)
    THEN EncodeSkipFrom(msg, cds, i + 1, acc)
    ELSE EncodeSkipFrom(msg, cds, i + 1, acc \o Get(cds.items, msg[i]))

encode_message_skip(msg, cds) == EncodeSkipFrom(msg, cds, 1, <<>>)

RECURSIVE EncodeFrom(_, _, _, _)
EncodeFrom(msg, cds, i, acc) ==
  IF i > Len(msg) THEN Return(acc)
  ELSE IF cds.isNone THEN Raise("TypeError", None)
  ELSE IF msg[i] \notin Keys(cds.items) THEN Raise("KeyError", msg[i])
  ELSE EncodeFrom(msg, cds, i + 1, acc \o Get(cds.items, msg[i]))

\* "".join(codes[ch] for ch in message)
encode_message(msg, cds) == EncodeFrom(msg, cds, 1, <<>>)

\* --------------------------------------------------------- decode_message
\* `if current.symbol:` None and "" are both falsy
Truthy(symbol) == symbol # None /\ symbol # ""

\* the loop of decode_message; `current.symbol` on None raises AttributeError
RECURSIVE DecodeFrom(_, _, _, _, _, _)
DecodeFrom(ns, bits, rt, i, current, dec) ==
  IF i > Len(bits) THEN Return(dec)
  ELSE LET next == IF bits[i] = "0" THEN ns[current].left
                   ELSE ns[current].right
       IN IF next = NoneNode THEN Raise("AttributeError", None)
          ELSE IF Truthy(ns[next].symbol)
            THEN DecodeFrom(ns, bits, rt, i + 1, rt,
                            Append(dec, ns[next].symbol))
            ELSE DecodeFrom(ns, bits, rt, i + 1, next, dec)

decode_message(ns, bits, rt) == DecodeFrom(ns, bits, rt, 1, rt, <<>>)

\* ---------------------------------------------------------------- actions
Start(ls, ps) ==
  /\ pc = "predict"
  /\ letters = ls
  /\ probs = ps
  /\ prob_dict = <<>>
  /\ todo = 1
  /\ nodes = <<>>
  /\ heap = <<>>
  /\ merge_steps = <<>>
  /\ root = NoneNode
  /\ codes = NoTable
  /\ message = <<>>
  /\ encoded = <<>>
  /\ decoded = <<>>
  /\ error = NoError

\* predict receives any two comma-separated lists
Init ==
  \E ls \in SeqsUpTo(Symbols, MaxLetters), ps \in SeqsUpTo(ProbValues, MaxLetters) :
    Start(ls, ps)

\* prob_dict = dict(zip(letters, probs)); build_tree is entered
MakeDict ==
  /\ pc = "predict"
  /\ prob_dict' = DictZip(letters, probs)
  /\ pc' = "build"
  /\ UNCHANGED <<letters, probs, todo, nodes, heap, merge_steps, root, codes,
                 message, encoded, decoded, error>>

\* one iteration of `for char, prob in prob_dict.items()`
Push ==
  /\ pc = "build"
  /\ todo <= Len(prob_dict)
  /\ LET item == Len(nodes) + 1
         ns == Append(nodes, HuffmanNode(prob_dict[todo].key, prob_dict[todo].value))
     IN /\ nodes' = ns
        /\ heap' = heappush(ns, heap, item)
  /\ todo' = todo + 1
  /\ UNCHANGED <<pc, letters, probs, prob_dict, merge_steps, root, codes,
                 message, encoded, decoded, error>>

\* one iteration of `while len(heap) > 1`
Merge ==
  /\ pc = "build"
  /\ todo > Len(prob_dict)
  /\ Len(heap) > 1
  /\ LET s == sorted(nodes, heap)
         left == s[1]
         right == s[2]
         merged == Merged(nodes, left, right)
     IN /\ nodes' = Append(nodes, merged)
        /\ merge_steps' = Append(merge_steps, MergeStep(nodes, left, right, merged))
        /\ heap' = Append(SubSeq(s, 3, Len(s)), Len(nodes) + 1)
  /\ UNCHANGED <<pc, letters, probs, prob_dict, todo, root, codes,
                 message, encoded, decoded, error>>

\* return heap[0], merge_steps
BuildReturn ==
  /\ pc = "build"
  /\ todo > Len(prob_dict)
  /\ Len(heap) <= 1
  /\ IF heap = <<>>
       THEN /\ pc' = "failed_build"
            /\ error' = Raise("IndexError", None).err
            /\ root' = root
       ELSE /\ pc' = "built"
            /\ root' = heap[1]
            /\ error' = error
  /\ UNCHANGED <<letters, probs, prob_dict, todo, nodes, heap, merge_steps,
                 codes, message, encoded, decoded>>

\* codes = generate_codes(root)
GenerateCodes ==
  /\ pc = "built"
  /\ codes' = generate_codes(nodes, root)
  /\ pc' = "coded"
  /\ UNCHANGED <<letters, probs, prob_dict, todo, nodes, heap, merge_steps,
                 root, message, encoded, decoded, error>>

\* encoded = encode_message(message, codes)
Encode ==
  /\ pc = "coded"
  /\ \E m \in SeqsUpTo(MsgChars, MaxMsg) :
       LET r == encode_message(m, codes)
       IN /\ message' = m
          /\ IF r.err = NoError
               THEN /\ encoded' = r.out
                    /\ pc' = "encoded"
                    /\ error' = error
               ELSE /\ encoded' = encoded
                    /\ pc' = "failed_encode"
                    /\ error' = r.err
  /\ UNCHANGED <<letters, probs, prob_dict, todo, nodes, heap, merge_steps,
                 root, codes, decoded>>

\* decoded = decode_message(encoded, root)
Decode ==
  /\ pc = "encoded"
  /\ LET r == decode_message(nodes, encoded, root)
     IN IF r.err = NoError
          THEN /\ decoded' = r.out
               /\ pc' = "done"
               /\ error' = error
          ELSE /\ decoded' = decoded
               /\ pc' = "failed_decode"
               /\ error' = r.err
  /\ UNCHANGED <<letters, probs, prob_dict, todo, nodes, heap, merge_steps,
                 root, codes, message, encoded>>

\* decode_message(bits, root) called on a bit-string of the caller's
DecodeBits ==
  /\ pc = "coded"
  /\ \E bits \in SeqsUpTo(Bits, MaxBits) :
       LET r == decode_message(nodes, bits, root)
       IN /\ encoded' = bits
          /\ IF r.err = NoError
               THEN /\ decoded' = r.out
                    /\ pc' = "bits_done"
                    /\ error' = error
               ELSE /\ decoded' = decoded
                    /\ pc' = "bits_failed"
                    /\ error' = r.err
  /\ UNCHANGED <<letters, probs, prob_dict, todo, nodes, heap, merge_steps,
                 root, codes, message>>

\* ---------------------------------------------------------- specifications
Distinct(s) == \A i, j \in 1..Len(s) : s[i] = s[j] => i = j

\* what the Alphabet Model is to accept: parallel, non-empty, positive, unique
ValidInput(ls, ps) ==
  /\ Len(ls) = Len(ps)
  /\ Len(ls) >= 1
  /\ \A i \in 1..Len(ps) : ps[i] > 0
  /\ Distinct(ls)

\* build_tree and generate_codes on whatever the form holds
Next == MakeDict \/ Push \/ Merge \/ BuildReturn \/ GenerateCodes

Spec == Init /\ [][Next]_vars

\* the codec on the trees of valid alphabets
InitCodec ==
  \E ls \in SeqsUpTo(Symbols, MaxLetters), ps \in SeqsUpTo(ProbValues, MaxLetters) :
    ValidInput(ls, ps) /\ Start(ls, ps)

NextCodec ==
  MakeDict \/ Push \/ Merge \/ BuildReturn \/ GenerateCodes
  \/ Encode \/ Decode \/ DecodeBits

SpecCodec == InitCodec /\ [][NextCodec]_vars

\* ------------------------------------------------- vocabulary of the claims
N == Len(prob_dict)
IsLeaf(x) == nodes[x].left = NoneNode /\ nodes[x].right = NoneNode
HasBoth(x) == nodes[x].left # NoneNode /\ nodes[x].right # NoneNode
Built == pc \in {"built", "coded", "encoded", "done", "failed_encode",
                 "failed_decode", "bits_done", "bits_failed"}
Coded == Built /\ pc # "built"
Merging == pc = "build" /\ todo > N

RECURSIVE SumValues(_)
SumValues(d) == IF d = <<>> THEN 0 ELSE Head(d).value + SumValues(Tail(d))

\* the symbols of the leaves below x, left to right
RECURSIVE LeafSymbols(_)
LeafSymbols(x) ==
  IF IsLeaf(x) THEN <<nodes[x].symbol>>
  ELSE (IF nodes[x].left = NoneNode THEN <<>> ELSE LeafSymbols(nodes[x].left))
       \o (IF nodes[x].right = NoneNode THEN <<>> ELSE LeafSymbols(nodes[x].right))

\* the nodes below and including x
RECURSIVE Subtree(_)
Subtree(x) ==
  IF x = NoneNode THEN {}
  ELSE {x} \cup Subtree(nodes[x].left) \cup Subtree(nodes[x].right)

Parents(x) ==
  {<<p, side>> \in (1..Len(nodes)) \X {"left", "right"} :
     (IF side = "left" THEN nodes[p].left ELSE nodes[p].right) = x}

IsPrefix(s, t) == Len(s) <= Len(t) /\ SubSeq(t, 1, Len(s)) = s

\* the k-th merge allocated node N + k; what was still active after it
MergedNode(k) == N + k
ActiveAfter(k) ==
  {x \in 1..(N + k - 1) :
     \A m \in (N + 1)..(N + k) : nodes[m].left # x /\ nodes[m].right # x}

\* where a walk over the tree is once the bits are used up, leaves being the
\* nodes without children
RECURSIVE WalkEnd(_, _, _)
WalkEnd(bits, i, current) ==
  IF i > Len(bits) THEN current
  ELSE LET next == IF bits[i] = "0" THEN nodes[current].left
                   ELSE nodes[current].right
       IN IF next = NoneNode THEN NoneNode
          ELSE IF IsLeaf(next) THEN WalkEnd(bits, i + 1, root)
          ELSE WalkEnd(bits, i + 1, next)

\* the symbols such a walk emits; a Python str grows by nothing on ""
RECURSIVE WalkEmits(_, _, _)
WalkEmits(bits, i, current) ==
  IF i > Len(bits) THEN <<>>
  ELSE LET next == IF bits[i] = "0" THEN nodes[current].left
                   ELSE nodes[current].right
       IN IF next = NoneNode THEN <<>>
          ELSE IF IsLeaf(next)
            THEN (IF nodes[next].symbol = "" THEN <<>> ELSE <<nodes[next].symbol>>)
                 \o WalkEmits(bits, i + 1, root)
          ELSE WalkEmits(bits, i + 1, next)

AfterEncode == pc \in {"encoded", "done", "failed_encode", "failed_decode"}
AfterRoundTrip == pc \in {"done", "failed_encode", "failed_decode"}
AfterDecode == pc \in {"done", "failed_decode", "bits_done", "bits_failed"}

TableKeys == IF codes.isNone THEN {} ELSE Keys(codes.items)
HasUnknown(m) == \E i \in 1..Len(m) : m[i] \notin TableKeys
FirstUnknown(m) ==
  CHOOSE i \in 1..Len(m) :
    m[i] \notin TableKeys /\ \A j \in 1..(i - 1) : m[j] \in TableKeys

\* ------------------------------------------------------------------ claims

\* C1 (as claimed): for every valid map, every message over the map's symbols
\* comes back unchanged from decode_message(encode_message(m, codes), root),
\* single-symbol maps included.
C1_RoundTrip ==
  (/\ AfterRoundTrip
   /\ ValidInput(letters, probs)
   /\ \A i \in 1..Len(message) : message[i] \in Keys(prob_dict))
  => (pc = "done" /\ decoded = message)

\* C2 (as claimed): for every valid map generate_codes returns a table with
\* one entry per symbol, every code a non-empty string over {0,1}, and no code
\* a prefix of another symbol's code.
C2_PrefixFree ==
  (Coded /\ ValidInput(letters, probs))
  => /\ ~codes.isNone
     /\ Len(codes.items) = N
     /\ Keys(codes.items) = Keys(prob_dict)
     /\ \A i \in 1..Len(codes.items) :
          /\ codes.items[i].value # <<>>
          /\ \A b \in 1..Len(codes.items[i].value) :
               codes.items[i].value[b] \in Bits
     /\ \A i, j \in 1..Len(codes.items) :
          i # j => ~IsPrefix(codes.items[i].value, codes.items[j].value)

\* C3 (as claimed): at every merge, a selected node precedes (leaf: inserted
\* earlier; internal: created earlier) every node of the same kind and the
\* same probability that stayed in the active set, and left precedes right
\* when the two tie.  Nodes are numbered in insertion, then creation order.
C3_TieStable ==
  ValidInput(letters, probs) =>
  \A k \in 1..Len(merge_steps) :
    LET left == nodes[MergedNode(k)].left
        right == nodes[MergedNode(k)].right
        Tie(x, y) == nodes[x].prob = nodes[y].prob /\ IsLeaf(x) = IsLeaf(y)
    IN /\ Tie(left, right) => left < right
       /\ \A o \in ActiveAfter(k) :
            /\ Tie(left, o) => left < o
            /\ Tie(right, o) => right < o

\* C4 (as claimed): a one-symbol map gives no merge and the code table that
\* maps the symbol to the one-bit code "0".
C4_SingleSymbol ==
  (Coded /\ ValidInput(letters, probs) /\ N = 1)
  => /\ merge_steps = <<>>
     /\ codes = [isNone |-> FALSE,
                 items |-> <<[key |-> prob_dict[1].key, value |-> <<"0">>]>>]

\* C5 (as claimed): on a tree of at least two symbols, a bit-string whose walk
\* stops at an internal node other than the root makes decode_message fail
\* with MalformedEncodingError instead of returning what it decoded so far.
C5_RejectsIncomplete ==
  (/\ AfterDecode
   /\ N >= 2
   /\ WalkEnd(encoded, 1, root) \notin {root, NoneNode})
  => (pc \in {"failed_decode", "bits_failed"}
      /\ error.kind = "MalformedEncodingError")

C7_Validation == ~ValidInput(letters, probs) => ~Built

\* C8: every merge took two nodes of the active set whose probabilities are
\* <= all that stayed, left.prob <= right.prob; the new node has no symbol,
\* these two children and the sum as probability, and the k-th MergeStep
\* records it.  For probabilities 2:1:1 the code lengths are 1, 2, 2.
C8_GreedyMerge ==
  /\ \A k \in 1..Len(merge_steps) :
       LET merged == nodes[MergedNode(k)]
           left == merged.left
           right == merged.right
       IN /\ merged.symbol = None
          /\ left \in 1..(MergedNode(k) - 1)
          /\ right \in 1..(MergedNode(k) - 1)
          /\ left # right
          /\ \A j \in 1..(k - 1) :
               {nodes[MergedNode(j)].left, nodes[MergedNode(j)].right}
                 \cap {left, right} = {}
          /\ nodes[left].prob <= nodes[right].prob
          /\ \A o \in ActiveAfter(k) : nodes[right].prob <= nodes[o].prob
          /\ merged.prob = nodes[left].prob + nodes[right].prob
          /\ merge_steps[k] = <<nodes[left].symbol, nodes[left].prob,
                                nodes[right].symbol, nodes[right].prob,
                                merged.prob>>
  /\ (Coded /\ N = 3) =>
       \A i \in 1..3 :
         (\A j \in (1..3) \ {i} :
            prob_dict[j].value > 0 /\ prob_dict[i].value = 2 * prob_dict[j].value)
         => /\ ~codes.isNone
            /\ \A j \in 1..3 :
                 Len(Get(codes.items, prob_dict[j].key)) = IF j = i THEN 1 ELSE 2

\* C8 witness: the 2:1:1 alphabet, merged twice and coded.
C8_Witness ==
  /\ pc = "coded"
  /\ Len(merge_steps) = 2
  /\ N = 3
  /\ prob_dict[1].value = 2
  /\ prob_dict[2].value = 1
  /\ prob_dict[3].value = 1

\* C9: the active set shrinks by one per merge; for n >= 1 symbols build_tree
\* returns after n-1 merges the root of a tree whose internal nodes have two
\* children and the sum of their probabilities, in which no node has two
\* parents, whose leaves are the n symbols once each with their
\* probabilities, and whose root carries the sum of all probabilities.
C9_WellFormedTree ==
  /\ Merging =>
       /\ Len(heap) + Len(merge_steps) = N
       /\ Len(nodes) = N + Len(merge_steps)
  /\ Built =>
       /\ N >= 1
       /\ Len(merge_steps) = N - 1
       /\ heap = <<root>>
       /\ Subtree(root) = 1..Len(nodes)
       /\ \A x \in Subtree(root) :
            /\ IsLeaf(x) \/ HasBoth(x)
            /\ IsLeaf(x) =>
                 /\ nodes[x].symbol \in Keys(prob_dict)
                 /\ nodes[x].prob = Get(prob_dict, nodes[x].symbol)
            /\ HasBoth(x) =>
                 /\ nodes[x].symbol = None
                 /\ nodes[x].prob =
                      nodes[nodes[x].left].prob + nodes[nodes[x].right].prob
            /\ Cardinality(Parents(x)) = IF x = root THEN 0 ELSE 1
       /\ Len(LeafSymbols(root)) = N
       /\ {LeafSymbols(root)[i] : i \in 1..N} = Keys(prob_dict)
       /\ nodes[root].prob = SumValues(prob_dict)

\* C9 witness: a tree of three symbols was returned.
C9_Witness ==
  /\ pc = "built"
  /\ N = 3
  /\ Len(merge_steps) = 2
  /\ ~IsLeaf(nodes[root].left) \/ ~IsLeaf(nodes[root].right)

\* C10 (as claimed): with the empty token among at least two symbols, every
\* bit-string that is a run of whole codes (the empty token's own code
\* included) decodes without error to what a walk that takes exactly the
\* childless nodes for leaves emits.
C10_StructuralLeaf ==
  (/\ AfterDecode
   /\ ValidInput(letters, probs)
   /\ N >= 2
   /\ "" \in Keys(prob_dict)
   /\ WalkEnd(encoded, 1, root) = root)
  => (pc \in {"done", "bits_done"}
      /\ decoded = WalkEmits(encoded, 1, root))

====
